---- MODULE Spec2Model ----
(***************************************************************************)
(* EstoqueDigital: the storage layer (server/storage.ts) that keeps        *)
(* materials, stock movements and requisitions, in its two                 *)
(* implementations (InMemoryStorage, DatabaseStorage), and the routes      *)
(* (server/routes.ts) in front of it.                                      *)
(*                                                                         *)
(* Spec            whole calls of the storage interface, one after another *)
(* SpecLedger      createStockMovement calls, one after another            *)
(* SpecConcurrent  two signRequisition calls on one requisition, their     *)
(*                 awaited steps interleaved                               *)
(* SpecAccess      registration, login and the employeeOnly guard          *)
(* SpecRequisitions the routes of requisitions and of the audit log        *)
(*                 (server/routes.ts, in its two versions)                 *)
(* SpecCatalog     the routes of materials and of the low-stock list       *)
(* SpecAudit       createAuditLog and getAuditLogs                         *)
(* SpecStock       the routes that write materials, movements and          *)
(*                 requisitions, with a createAuditLog that may throw      *)
(* SpecSigning     the two sign routes, side by side                       *)
(* SpecRace        two createStockMovement calls on one material, their    *)
(*                 awaited steps interleaved                               *)
(* SpecFaulty      one signRequisition call on a database whose statements *)
(*                 may fail                                                *)
(* SpecTwin        one sequence of calls on InMemoryStorage, then on       *)
(*                 DatabaseStorage                                         *)
(*                                                                         *)
(* Left out of the records: name, code, unit, unitPrice, observation,      *)
(* createdById, createdAt, updatedAt (no operation modelled here reads     *)
(* them).  A timestamp written by new Date() is the token Now.             *)
(***************************************************************************)
EXTENDS Integers, Sequences, FiniteSets, TLC

VARIABLES
    impl,            \* which IStorage implementation is the storage instance
    materials,       \* id -> [minimumStock, currentStock]
    materialIds,     \* number of material ids issued so far (randomUUID)
    stockMovements,  \* the movements, in insertion order
    requisitions,    \* id -> requisition record
    last,            \* the last call of the storage interface and its outcome
    calls,           \* the calls in flight (SpecConcurrent: of signRequisition;
                     \* SpecAccess: the register requests)
    users,           \* id -> [email, role, passwordHash]
    session,         \* req.session of the one browser: [employeeUserId]
    auditLogs,       \* the audit entries, in insertion order
    clock,           \* the millisecond new Date() reads
    res,             \* the last response a route sent
    replay           \* SpecTwin: the calls made on one implementation, their
                     \* outcomes, and the store they left, to be made again
                     \* on the other

\* what the routes add to the storage of materials, movements and requisitions
web == <<users, session, auditLogs, clock, res>>

vars == <<impl, materials, materialIds, stockMovements, requisitions, last, calls,
          users, session, auditLogs, clock, res, replay>>

-----------------------------------------------------------------------------
(* Bounds of the model *)

MaxMaterials == 1
MaxRequisitions == 1
MaxMovements == 2
MaxQuantity == 1
MaxMinimumStock == 0
MaxLedger == 4
MaxInitialStock == 2

-----------------------------------------------------------------------------
(* Values *)

Null == "null"                 \* null / undefined of a string-valued field
Now == "now"                   \* a Date produced by new Date()
NoId == 0                      \* null / undefined of an id-valued field
NoSigner == ""                 \* signerId undefined or "": both falsy

Users == {"u1", "u2"}
Employees == {"u1"}            \* the users requisitions are made for
Actors == {"u2"}               \* the session users of direct stock movements
Devices == {Null, "ua1"}       \* req.get('User-Agent') may be undefined
Ips == {"ip1"}
MovementTypes == {"ENTRADA", "SAIDA", "AJUSTE"}
Statuses == {"PENDENTE", "ASSINADA", "CANCELADA"}
Quantities == (0 - MaxQuantity)..MaxQuantity
MinimumStocks == 0..MaxMinimumStock
Implementations == {"memory", "database"}

\* ids a caller can name: the material ids issued so far (of materials stored or
\* deleted since); the requisition ids, and one no requisition has
MaterialRefs == 1..materialIds
RequisitionRefs == DOMAIN requisitions \cup {MaxRequisitions + 1}

Max(a, b) == IF a >= b THEN a ELSE b

\* what a call of the storage interface leaves for its caller to see: the call,
\* and whether it threw (status: the thrown error's status property, 0 without)
\* (was: the status signRequisition's lookup found, Null when it found none).
Outcome(op, id, device, ip, signerId, was, threw, status) ==
    [op |-> op, id |-> id, device |-> device, ip |-> ip, signerId |-> signerId,
     was |-> was, threw |-> threw, status |-> status]

Ok(op, id) == Outcome(op, id, Null, Null, NoSigner, Null, FALSE, 0)
Thrown(op, id) == Outcome(op, id, Null, Null, NoSigner, Null, TRUE, 0)

\* what a route sends: the status of the response, its body, and whether the
\* handler behind a guard was called (user: res.locals.employeeUser)
Response(route, status, body, called, user) ==
    [route |-> route, status |-> status, body |-> body, called |-> called,
     user |-> user]

NoResponse == Response("none", 0, <<>>, FALSE, <<>>)

\* the calls recorded on the implementation `phase` names, with their outcomes
\* and the store after them, and the outcomes of the calls made again so far
Replay(phase, script, outcomes, store, replayed) ==
    [phase |-> phase, script |-> script, outcomes |-> outcomes, store |-> store,
     replayed |-> replayed]

Store(mats, movements, reqs) ==
    [materials |-> mats, stockMovements |-> movements, requisitions |-> reqs]

NoReplay == Replay("none", <<>>, <<>>, Store(<<>>, <<>>, <<>>), <<>>)

-----------------------------------------------------------------------------
(* Material operations *)

\* InMemoryStorage writes currentStock: 0; DatabaseStorage inserts the input as
\* it is, and the column's default 0 stands in for a currentStock it lacks
NewMaterial(input) ==
    [minimumStock |-> input.minimumStock,
     currentStock |-> IF impl = "database" /\ "currentStock" \in DOMAIN input
                      THEN input.currentStock ELSE 0]

createMaterial(input) ==
    /\ materialIds' = materialIds + 1
    /\ materials' = materials @@ ((materialIds + 1) :> NewMaterial(input))
    /\ last' = Ok("createMaterial", materialIds + 1)
    /\ UNCHANGED <<impl, stockMovements, requisitions, calls>>

Merge(existing, partial) ==
    [f \in DOMAIN existing |->
        IF f \in DOMAIN partial THEN partial[f] ELSE existing[f]]

updateMaterial(id, partial) ==
    IF id \in DOMAIN materials
    THEN /\ materials' = [materials EXCEPT ![id] = Merge(@, partial)]
         /\ last' = Ok("updateMaterial", id)
         /\ UNCHANGED <<impl, materialIds, stockMovements, requisitions, calls>>
    ELSE /\ last' = IF impl = "memory" THEN Thrown("updateMaterial", id)
                                       ELSE Ok("updateMaterial", id)
         /\ UNCHANGED <<impl, materials, materialIds, stockMovements, requisitions, calls>>

deleteMaterial(id) ==
    /\ materials' = [m \in DOMAIN materials \ {id} |-> materials[m]]
    /\ last' = Ok("deleteMaterial", id)
    /\ UNCHANGED <<impl, materialIds, stockMovements, requisitions, calls>>

-----------------------------------------------------------------------------
(* Stock movement operations *)

NewMovement(movement) ==
    [materialId |-> movement.materialId, type |-> movement.type,
     quantity |-> movement.quantity, userId |-> movement.userId,
     requisitionId |-> movement.requisitionId]

\* NewStock without the clamp of Math.max(0, newStock)
NewStock_NoClamp(currentStock, type, quantity) ==
    IF type \in {"ENTRADA", "AJUSTE"} THEN currentStock + quantity
    ELSE IF type = "SAIDA" THEN currentStock - quantity
    ELSE currentStock

\* NewStock with AJUSTE setting the stock to the quantity instead of adding it
NewStock_AdjustAbsolute(currentStock, type, quantity) ==
    Max(0, IF type = "ENTRADA" THEN currentStock + quantity
           ELSE IF type = "AJUSTE" THEN quantity
           ELSE IF type = "SAIDA" THEN currentStock - quantity
           ELSE currentStock)

NewStock(currentStock, type, quantity) ==
    Max(0, IF type \in {"ENTRADA", "AJUSTE"} THEN currentStock + quantity
           ELSE IF type = "SAIDA" THEN currentStock - quantity
           ELSE currentStock)

\* StockApplied to every material
StockApplied_All(mats, movement) ==
    [m \in DOMAIN mats |->
        [mats[m] EXCEPT !.currentStock =
            NewStock(@, movement.type, movement.quantity)]]

\* the materials after the stock recomputation that ends createStockMovement
StockApplied(mats, movement) ==
    IF movement.materialId \in DOMAIN mats
    THEN [mats EXCEPT ![movement.materialId].currentStock =
              NewStock(@, movement.type, movement.quantity)]
    ELSE mats

createStockMovement(movement) ==
    /\ stockMovements' = Append(stockMovements, NewMovement(movement))
    /\ materials' = StockApplied(materials, movement)
    /\ last' = Ok("createStockMovement", Len(stockMovements) + 1)
    /\ UNCHANGED <<impl, materialIds, requisitions, calls>>

-----------------------------------------------------------------------------
(* Requisition operations *)

NewRequisition(input) ==
    [employeeId |-> input.employeeId, materialId |-> input.materialId,
     quantity |-> input.quantity,
     status |-> IF input.status = Null THEN "PENDENTE" ELSE input.status,
     signedAt |-> Null, signedByDevice |-> Null, signedByIp |-> Null]

createRequisition(input) ==
    LET id == Cardinality(DOMAIN requisitions) + 1 IN
    /\ requisitions' = requisitions @@ (id :> NewRequisition(input))
    /\ last' = Ok("createRequisition", id)
    /\ UNCHANGED <<impl, materials, materialIds, stockMovements, calls>>

updateRequisition(id, partial) ==
    IF id \in DOMAIN requisitions
    THEN /\ requisitions' = [requisitions EXCEPT ![id] = Merge(@, partial)]
         /\ last' = Ok("updateRequisition", id)
         /\ UNCHANGED <<impl, materials, materialIds, stockMovements, calls>>
    ELSE /\ last' = IF impl = "memory" THEN Thrown("updateRequisition", id)
                                       ELSE Ok("updateRequisition", id)
         /\ UNCHANGED <<impl, materials, materialIds, stockMovements, requisitions, calls>>

\* SignError without the check of the status
SignError_NoSignedCheck(reqs, id, signerId) ==
    IF id \notin DOMAIN reqs THEN 404
    ELSE IF signerId # NoSigner /\ reqs[id].employeeId # signerId THEN 403
    ELSE 0

\* SignError without the check of the signer
SignError_NoOwnerCheck(reqs, id, signerId) ==
    IF id \notin DOMAIN reqs THEN 404
    ELSE IF reqs[id].status = "ASSINADA" THEN 400
    ELSE 0

\* the status of the error signRequisition throws, 0 when it throws none
SignError(reqs, id, signerId) ==
    IF id \notin DOMAIN reqs THEN 404
    ELSE IF signerId # NoSigner /\ reqs[id].employeeId # signerId THEN 403
    ELSE IF reqs[id].status = "ASSINADA" THEN 400
    ELSE 0

\* the requisition as signRequisition writes it
SignedRequisition(requisition, device, ip) ==
    [requisition EXCEPT
        !.status = "ASSINADA",
        !.signedAt = Now,
        !.signedByDevice =
            IF device = Null /\ impl = "database" THEN @ ELSE device,
        !.signedByIp = IF ip = Null /\ impl = "database" THEN @ ELSE ip]

\* SignMovement attributed to nobody's requisition
SignMovement_Unlinked(requisition, id) ==
    [materialId |-> requisition.materialId, type |-> "SAIDA",
     quantity |-> requisition.quantity, userId |-> requisition.employeeId,
     requisitionId |-> NoId]

\* the movement signRequisition hands to createStockMovement
SignMovement(requisition, id) ==
    [materialId |-> requisition.materialId, type |-> "SAIDA",
     quantity |-> requisition.quantity, userId |-> requisition.employeeId,
     requisitionId |-> id]

signRequisition(id, device, ip, signerId) ==
    LET error == SignError(requisitions, id, signerId)
        was == IF id \in DOMAIN requisitions THEN requisitions[id].status ELSE Null
    IN
    IF error # 0
    THEN /\ last' = Outcome("signRequisition", id, device, ip, signerId, was, TRUE, error)
         /\ UNCHANGED <<impl, materials, materialIds, stockMovements, requisitions, calls>>
    ELSE /\ requisitions' =
                [requisitions EXCEPT ![id] = SignedRequisition(@, device, ip)]
         /\ stockMovements' =
                Append(stockMovements, NewMovement(SignMovement(requisitions[id], id)))
         /\ materials' = StockApplied(materials, SignMovement(requisitions[id], id))
         /\ last' = Outcome("signRequisition", id, device, ip, signerId, was, FALSE, 0)
         /\ UNCHANGED <<impl, materialIds, calls>>

-----------------------------------------------------------------------------
(* Inputs *)

MaterialInputs == [minimumStock : MinimumStocks]
MaterialPartials == [minimumStock : MinimumStocks]

MovementInputs ==
    [materialId : MaterialRefs, type : MovementTypes, quantity : Quantities,
     userId : Actors, requisitionId : {NoId} \cup DOMAIN requisitions]

RequisitionInputs ==
    [employeeId : Employees, materialId : MaterialRefs, quantity : Quantities,
     status : {Null} \cup Statuses]

RequisitionPartials ==
    [status : Statuses] \cup [quantity : Quantities]
        \cup [materialId : MaterialRefs] \cup [employeeId : Employees]

-----------------------------------------------------------------------------
(* Spec: whole calls, one after another *)

Init ==
    /\ impl \in Implementations
    /\ materials = <<>>
    /\ materialIds = 0
    /\ stockMovements = <<>>
    /\ requisitions = <<>>
    /\ last = Ok("init", NoId)
    /\ calls = <<>>
    /\ users = <<>>
    /\ session = [employeeUserId |-> Null]
    /\ auditLogs = <<>>
    /\ clock = 0
    /\ res = NoResponse
    /\ replay = NoReplay

CanMove == Len(stockMovements) < MaxMovements

Next ==
    /\ UNCHANGED <<web, replay>>
    /\ \/ /\ materialIds < MaxMaterials
          /\ \E input \in MaterialInputs : createMaterial(input)
       \/ \E id \in MaterialRefs, partial \in MaterialPartials : updateMaterial(id, partial)
       \/ \E id \in MaterialRefs : deleteMaterial(id)
       \/ /\ CanMove
          /\ \E movement \in MovementInputs : createStockMovement(movement)
       \/ /\ Cardinality(DOMAIN requisitions) < MaxRequisitions
          /\ \E input \in RequisitionInputs : createRequisition(input)
       \/ \E id \in RequisitionRefs, partial \in RequisitionPartials :
              updateRequisition(id, partial)
       \/ \E id \in RequisitionRefs, device \in Devices, ip \in Ips,
             signerId \in Users \cup {NoSigner} :
              /\ SignError(requisitions, id, signerId) = 0 => CanMove
              /\ signRequisition(id, device, ip, signerId)

Spec == Init /\ [][Next]_vars

-----------------------------------------------------------------------------
(* SpecLedger: createStockMovement calls, one after another *)

LedgerInputs ==
    [materialId : MaterialRefs, type : MovementTypes, quantity : 1..MaxQuantity,
     userId : Actors, requisitionId : {NoId}]

NextLedger ==
    /\ UNCHANGED <<web, replay>>
    /\ \/ /\ materialIds < MaxMaterials
          /\ \E input \in MaterialInputs : createMaterial(input)
       \/ /\ Len(stockMovements) < MaxLedger
          /\ \E movement \in LedgerInputs : createStockMovement(movement)

SpecLedger == Init /\ [][NextLedger]_vars

-----------------------------------------------------------------------------
(* SpecConcurrent: two signRequisition calls on requisition 1, each taking one
   step per await.  InMemoryStorage awaits nothing before the getMaterial of
   createStockMovement, so its lookup, checks, status write, movement insert
   and stock read are one step; DatabaseStorage awaits each query. *)

Callers == {1, 2}

Call(pc, device, ip, signerId) ==
    [pc |-> pc, id |-> 1, device |-> device, ip |-> ip, signerId |-> signerId,
     row |-> <<>>, stock |-> 0, threw |-> FALSE, status |-> 0]

InitConcurrent ==
    /\ impl \in Implementations
    /\ materialIds = 1
    /\ \E stock \in 0..MaxInitialStock :
          /\ materials = (1 :> [minimumStock |-> 0, currentStock |-> stock])
          /\ stockMovements =
                 IF stock = 0 THEN <<>>
                 ELSE <<[materialId |-> 1, type |-> "ENTRADA", quantity |-> stock,
                         userId |-> "u2", requisitionId |-> NoId]>>
    /\ \E employeeId \in Employees, quantity \in 1..MaxQuantity :
          requisitions =
              (1 :> NewRequisition([employeeId |-> employeeId, materialId |-> 1,
                                    quantity |-> quantity, status |-> Null]))
    /\ calls \in [Callers -> {Call("lookup", device, ip, signerId) :
                      device \in Devices, ip \in Ips, signerId \in Users \cup {NoSigner}}]
    /\ last = Ok("init", NoId)
    /\ users = <<>>
    /\ session = [employeeUserId |-> Null]
    /\ auditLogs = <<>>
    /\ clock = 0
    /\ res = NoResponse
    /\ replay = NoReplay

\* the lookup of the requisition and the checks that follow it
Looked(c) ==
    LET call == calls[c]
        error == SignError(requisitions, call.id, call.signerId)
    IN  IF error # 0
        THEN [call EXCEPT !.pc = "done", !.threw = TRUE, !.status = error]
        ELSE [call EXCEPT !.pc = "update", !.row = <<requisitions[call.id]>>]

\* the getMaterial of createStockMovement and the test of its result
Read(call, mats) ==
    IF call.row[1].materialId \in DOMAIN mats
    THEN [call EXCEPT !.pc = "write",
                      !.stock = mats[call.row[1].materialId].currentStock]
    ELSE [call EXCEPT !.pc = "done"]

SignLookup(c) ==
    /\ impl = "database"
    /\ calls[c].pc = "lookup"
    /\ calls' = [calls EXCEPT ![c] = Looked(c)]
    /\ UNCHANGED <<impl, materials, materialIds, stockMovements, requisitions, last>>

SignUpdate(c) ==
    /\ calls[c].pc = "update"
    /\ requisitions' =
           [requisitions EXCEPT ![calls[c].id] =
               SignedRequisition(@, calls[c].device, calls[c].ip)]
    /\ calls' = [calls EXCEPT ![c].pc = "insert"]
    /\ UNCHANGED <<impl, materials, materialIds, stockMovements, last>>

MovementInsert(c) ==
    /\ calls[c].pc = "insert"
    /\ stockMovements' =
           Append(stockMovements,
                  NewMovement(SignMovement(calls[c].row[1], calls[c].id)))
    /\ calls' = [calls EXCEPT ![c].pc = "read"]
    /\ UNCHANGED <<impl, materials, materialIds, requisitions, last>>

MovementRead(c) ==
    /\ calls[c].pc = "read"
    /\ calls' = [calls EXCEPT ![c] = Read(@, materials)]
    /\ UNCHANGED <<impl, materials, materialIds, stockMovements, requisitions, last>>

\* InMemoryStorage: everything up to the first await, in one step
SignInMemory(c) ==
    /\ impl = "memory"
    /\ calls[c].pc = "lookup"
    /\ IF Looked(c).pc = "done"
       THEN /\ calls' = [calls EXCEPT ![c] = Looked(c)]
            /\ UNCHANGED <<requisitions, stockMovements>>
       ELSE /\ requisitions' =
                   [requisitions EXCEPT ![calls[c].id] =
                       SignedRequisition(@, calls[c].device, calls[c].ip)]
            /\ stockMovements' =
                   Append(stockMovements,
                          NewMovement(SignMovement(requisitions[calls[c].id], calls[c].id)))
            /\ calls' = [calls EXCEPT ![c] = Read(Looked(c), materials)]
    /\ UNCHANGED <<impl, materials, materialIds, last>>

\* updateMaterialStock with the stock computed from the material read before
MovementWrite(c) ==
    LET m == calls[c].row[1].materialId IN
    /\ calls[c].pc = "write"
    /\ materials' =
           IF m \in DOMAIN materials
           THEN [materials EXCEPT ![m].currentStock =
                    NewStock(calls[c].stock, "SAIDA", calls[c].row[1].quantity)]
           ELSE materials
    /\ calls' = [calls EXCEPT ![c].pc = "done"]
    /\ UNCHANGED <<impl, materialIds, stockMovements, requisitions, last>>

NextConcurrent ==
    /\ UNCHANGED <<web, replay>>
    /\ \E c \in Callers :
           \/ SignLookup(c)
           \/ SignUpdate(c)
           \/ MovementInsert(c)
           \/ MovementRead(c)
           \/ SignInMemory(c)
           \/ MovementWrite(c)

SpecConcurrent == InitConcurrent /\ [][NextConcurrent]_vars

-----------------------------------------------------------------------------
(* User operations *)

Roles == {"ADMIN", "ESTOQUE", "FUNCIONARIO"}
Emails == {"a@x.com", "A@x.com", "b@x.com"}
PasswordHash == "salt:key"            \* what hashPassword returns
RandomUUIDs == <<"e1", "e2", "e3", "e4">>   \* the ids createEmployeeUser draws

\* String.prototype.toLowerCase, on the addresses of Emails
ToLowerCase(email) == IF email = "A@x.com" THEN "a@x.com" ELSE email

getUser(id) == IF id \in DOMAIN users THEN <<users[id]>> ELSE <<>>

\* a ?? b
Coalesce(a, b) == IF a # Null THEN a ELSE b

\* the record InMemoryStorage.upsertUser stores
UpsertedInMemory(userData) ==
    LET id == userData.id
        known == id \in DOMAIN users
    IN  [id |-> id,
         email |-> IF userData.email # Null THEN ToLowerCase(userData.email)
                   ELSE IF known THEN users[id].email ELSE Null,
         role |-> Coalesce(userData.role,
                           IF known THEN users[id].role ELSE "FUNCIONARIO"),
         passwordHash |-> Coalesce(userData.passwordHash,
                                   IF known THEN users[id].passwordHash ELSE Null),
         seq |-> IF known THEN users[id].seq ELSE Cardinality(DOMAIN users) + 1]

\* the row DatabaseStorage.upsertUser leaves: the values as given on insert
\* (role by the column's default), the given ones alone on conflict
UpsertedInDatabase(userData) ==
    LET id == userData.id
        known == id \in DOMAIN users
    IN  [id |-> id,
         email |-> IF known THEN Coalesce(userData.email, users[id].email)
                   ELSE userData.email,
         role |-> Coalesce(userData.role,
                           IF known THEN users[id].role ELSE "FUNCIONARIO"),
         passwordHash |-> IF known
                          THEN Coalesce(userData.passwordHash, users[id].passwordHash)
                          ELSE userData.passwordHash,
         seq |-> IF known THEN users[id].seq ELSE Cardinality(DOMAIN users) + 1]

\* the unique index users_email_key refuses the row
EmailTaken(row) ==
    /\ row.email # Null
    /\ \E other \in DOMAIN users \ {row.id} : users[other].email = row.email

\* the users after upsertUser(userData), and whether the call threw
Upserted(userData) ==
    IF impl = "memory"
    THEN [users |-> (userData.id :> UpsertedInMemory(userData)) @@ users,
          threw |-> FALSE]
    ELSE IF EmailTaken(UpsertedInDatabase(userData))
         THEN [users |-> users, threw |-> TRUE]
         ELSE [users |-> (userData.id :> UpsertedInDatabase(userData)) @@ users,
               threw |-> FALSE]

upsertUser(userData) ==
    /\ users' = Upserted(userData).users
    /\ last' = IF Upserted(userData).threw THEN Thrown("upsertUser", NoId)
               ELSE Ok("upsertUser", NoId)
    /\ UNCHANGED <<impl, materials, materialIds, stockMovements, requisitions, calls,
                   session, auditLogs, clock, res>>

\* the users getUserByEmail may return: InMemoryStorage the first inserted whose
\* address matches ignoring case, DatabaseStorage a row holding the lowered
\* address
UsersByEmail(email) ==
    IF impl = "memory"
    THEN LET matching == {id \in DOMAIN users :
                              /\ users[id].email # Null
                              /\ ToLowerCase(users[id].email) = ToLowerCase(email)}
         IN  {id \in matching : \A other \in matching : users[id].seq <= users[other].seq}
    ELSE {id \in DOMAIN users : users[id].email = ToLowerCase(email)}

\* the id randomUUID gives the next registered employee
NewUserId ==
    RandomUUIDs[Cardinality({i \in DOMAIN RandomUUIDs : RandomUUIDs[i] \in DOMAIN users}) + 1]

\* the argument createEmployeeUser hands to upsertUser (to insert, in
\* DatabaseStorage)
EmployeeUser(email) ==
    [id |-> NewUserId, email |-> ToLowerCase(email), role |-> "FUNCIONARIO",
     passwordHash |-> PasswordHash]

-----------------------------------------------------------------------------
(* Audit operations *)

AuditLimit == 1000                     \* .slice(0, 1000) / .limit(1000)

\* rows of equal created_at come from the database in an order ORDER BY leaves
\* open; Array.prototype.sort keeps them in insertion order
TieOrders == IF impl = "memory" THEN {"inserted"} ELSE {"inserted", "reversed"}

Reverse(seq) == [i \in 1..Len(seq) |-> seq[Len(seq) + 1 - i]]

CreatedAt(logs, t) == SelectSeq(logs, LAMBDA entry : entry.createdAt = t)

\* the entries created at t or earlier, those of the later time first
RECURSIVE NewestFirst(_, _, _)
NewestFirst(logs, t, ties) ==
    IF t < 0 THEN <<>>
    ELSE (IF ties = "reversed" THEN Reverse(CreatedAt(logs, t)) ELSE CreatedAt(logs, t))
         \o NewestFirst(logs, t - 1, ties)

\* Slice that drops nothing
Slice_Unlimited(seq, n) == seq

\* Array.prototype.slice(0, n)
Slice(seq, n) == SubSeq(seq, 1, IF Len(seq) < n THEN Len(seq) ELSE n)

getAuditLogs(ties) == Slice(NewestFirst(auditLogs, clock, ties), AuditLimit)

NewAuditLog(log) ==
    [id |-> Len(auditLogs) + 1, userId |-> log.userId, action |-> log.action,
     entityType |-> log.entityType, entityId |-> log.entityId, createdAt |-> clock]

\* createAuditLog that keeps the newest entry alone
createAuditLog_Replace(log) == auditLogs' = <<NewAuditLog(log)>>

createAuditLog(log) == auditLogs' = Append(auditLogs, NewAuditLog(log))

-----------------------------------------------------------------------------
(* Routes *)

\* employeeOnly without the test of the role
employeeOnly_AnyRole ==
    LET employeeId == session.employeeUserId IN
    IF employeeId = Null
    THEN [status |-> 401, session |-> session, called |-> FALSE, user |-> <<>>]
    ELSE IF getUser(employeeId) = <<>>
    THEN [status |-> 403, session |-> [session EXCEPT !.employeeUserId = Null],
          called |-> FALSE, user |-> <<>>]
    ELSE [status |-> 0, session |-> session, called |-> TRUE,
          user |-> getUser(employeeId)]

\* the guard: the response it sends (status 0: none), the session it leaves,
\* whether it calls next(), and res.locals.employeeUser
employeeOnly ==
    LET employeeId == session.employeeUserId IN
    IF employeeId = Null
    THEN [status |-> 401, session |-> session, called |-> FALSE, user |-> <<>>]
    ELSE IF getUser(employeeId) = <<>> \/ getUser(employeeId)[1].role # "FUNCIONARIO"
    THEN [status |-> 403, session |-> [session EXCEPT !.employeeUserId = Null],
          called |-> FALSE, user |-> <<>>]
    ELSE [status |-> 0, session |-> session, called |-> TRUE,
          user |-> getUser(employeeId)]

\* getRequisitions without the filter
getRequisitions_All(employeeId) == DOMAIN requisitions

\* the requisitions getRequisitions(employeeId) lists (their order left out)
getRequisitions(employeeId) ==
    IF employeeId # Null
    THEN {id \in DOMAIN requisitions : requisitions[id].employeeId = employeeId}
    ELSE DOMAIN requisitions

\* GET /api/employee/requisitions, behind employeeOnly
GetEmployeeRequisitions ==
    LET route == "GET /api/employee/requisitions" IN
    /\ session' = employeeOnly.session
    /\ res' = IF employeeOnly.called
              THEN Response(route, 200, getRequisitions(session.employeeUserId),
                            TRUE, employeeOnly.user)
              ELSE Response(route, employeeOnly.status, {}, FALSE, <<>>)
    /\ UNCHANGED <<impl, materials, materialIds, stockMovements, requisitions, last,
                   calls, users, auditLogs, clock>>

\* GET /api/requisitions, of the session user sub
GetRequisitions(sub) ==
    LET user == getUser(sub)
        employeeId == IF user # <<>> /\ user[1].role = "FUNCIONARIO" THEN sub ELSE Null
    IN
    /\ res' = Response("GET /api/requisitions", 200, getRequisitions(employeeId),
                       TRUE, user)
    /\ UNCHANGED <<impl, materials, materialIds, stockMovements, requisitions, last,
                   calls, users, session, auditLogs, clock>>

\* the test GET /api/audit-logs makes of the session user, without it
IsAdmin_Always(user) == TRUE

\* user?.role === 'ADMIN'
IsAdmin(user) == user # <<>> /\ user[1].role = "ADMIN"

\* GET /api/audit-logs, of the session user sub
GetAuditLogs(sub) ==
    /\ \E ties \in TieOrders :
          res' = IF IsAdmin(getUser(sub))
                 THEN Response("GET /api/audit-logs", 200, getAuditLogs(ties), TRUE,
                               getUser(sub))
                 ELSE Response("GET /api/audit-logs", 403, <<>>, TRUE, getUser(sub))
    /\ UNCHANGED <<impl, materials, materialIds, stockMovements, requisitions, last,
                   calls, users, session, auditLogs, clock>>

\* POST /api/employee/register up to its first await: the lookup of the address
RegisterLookup(email) ==
    /\ IF UsersByEmail(email) # {}
       THEN /\ res' = Response("POST /api/employee/register", 400, email, TRUE, <<>>)
            /\ calls' = calls
       ELSE /\ calls' = Append(calls, [pc |-> "create", email |-> email])
            /\ res' = res
    /\ UNCHANGED <<impl, materials, materialIds, stockMovements, requisitions, last,
                   users, session, auditLogs, clock>>

\* ... and from createEmployeeUser on
RegisterCreate(c) ==
    LET created == Upserted(EmployeeUser(calls[c].email)) IN
    /\ calls[c].pc = "create"
    /\ users' = created.users
    /\ res' = Response("POST /api/employee/register",
                       IF created.threw THEN 500 ELSE 201, calls[c].email, TRUE, <<>>)
    /\ calls' = [calls EXCEPT ![c].pc = "done"]
    /\ UNCHANGED <<impl, materials, materialIds, stockMovements, requisitions, last,
                   session, auditLogs, clock>>

\* POST /api/employee/login; valid: what verifyPassword finds
Login(email, valid) ==
    /\ \E found \in IF UsersByEmail(email) = {} THEN {Null} ELSE UsersByEmail(email) :
          IF \/ found = Null
             \/ users[found].role # "FUNCIONARIO"
             \/ users[found].passwordHash = Null
             \/ ~valid
          THEN /\ res' = Response("POST /api/employee/login", 401, email, TRUE, <<>>)
               /\ session' = session
          ELSE /\ res' = Response("POST /api/employee/login", 200, email, TRUE,
                                  <<users[found]>>)
               /\ session' = [session EXCEPT !.employeeUserId = found]
    /\ UNCHANGED <<impl, materials, materialIds, stockMovements, requisitions, last,
                   calls, users, auditLogs, clock>>

\* POST /api/employee/logout
Logout ==
    /\ session' = [session EXCEPT !.employeeUserId = Null]
    /\ res' = Response("POST /api/employee/logout", 200, <<>>, TRUE, <<>>)
    /\ UNCHANGED <<impl, materials, materialIds, stockMovements, requisitions, last,
                   calls, users, auditLogs, clock>>

\* POST /api/requisitions, of the session user sub
PostRequisition(sub, body) ==
    LET id == Cardinality(DOMAIN requisitions) + 1 IN
    /\ createRequisition(body)
    /\ createAuditLog([userId |-> sub, action |-> "CREATE",
                       entityType |-> "REQUISITION", entityId |-> id])
    /\ res' = Response("POST /api/requisitions", 200, id, TRUE, <<>>)
    /\ UNCHANGED <<users, session, clock>>

\* the status of the catch block of POST /api/requisitions/:id/sign as
\* server/routes.ts has it
SignStatus_Always500(threw, status) == IF threw THEN 500 ELSE 200

\* the status POST /api/requisitions/:id/sign responds with, given what
\* signRequisition did
SignStatus(threw, status) ==
    IF ~threw THEN 200 ELSE IF status # 0 THEN status ELSE 500

\* the try block of the sign routes: signRequisition, then createAuditLog
\* (audited: createAuditLog does not throw)
SignLogged(sub, id, device, ip, signerId, audited) ==
    /\ signRequisition(id, device, ip, signerId)
    /\ IF last'.threw \/ ~audited
       THEN auditLogs' = auditLogs
       ELSE createAuditLog([userId |-> sub, action |-> "SIGN",
                            entityType |-> "REQUISITION", entityId |-> id])
    /\ UNCHANGED <<users, clock>>

\* what both versions of POST /api/requisitions/:id/sign do before they respond
SignAndLog(sub, id, device, ip) ==
    /\ SignLogged(sub, id, device, ip, NoSigner, TRUE)
    /\ UNCHANGED session

\* POST /api/requisitions/:id/sign, the version of server/routes.ts
SignRoute(sub, id, device, ip) ==
    /\ SignAndLog(sub, id, device, ip)
    /\ res' = Response("POST /api/requisitions/:id/sign",
                       SignStatus_Always500(last'.threw, last'.status), id, TRUE, <<>>)

\* POST /api/requisitions/:id/sign, the version with error?.status
SignRouteByStatus(sub, id, device, ip) ==
    /\ SignAndLog(sub, id, device, ip)
    /\ res' = Response("POST /api/requisitions/:id/sign",
                       SignStatus(last'.threw, last'.status), id, TRUE, <<>>)

\* AfterAudit that answers as if createAuditLog had not thrown
AfterAudit_Swallowed(status, audited) == status

\* the status a route responds with once its mutation is done: the error of a
\* createAuditLog that throws has no status and lands in the 500 of the catch
AfterAudit(status, audited) == IF audited THEN status ELSE 500

\* POST /api/requisitions/:id/sign, the version with error?.status, with a
\* createAuditLog that may throw
SignRouteAudited(sub, id, device, ip, audited) ==
    /\ SignLogged(sub, id, device, ip, NoSigner, audited)
    /\ res' = Response("POST /api/requisitions/:id/sign",
                       IF last'.threw THEN SignStatus(TRUE, last'.status)
                       ELSE AfterAudit(200, audited), id, TRUE, <<>>)
    /\ UNCHANGED session

\* the status of the catch block of POST /api/employee/requisitions/:id/sign
EmployeeSignStatus(threw, status) ==
    IF ~threw THEN 200 ELSE IF status \in {400, 403, 404} THEN status ELSE 500

\* the signerId POST /api/employee/requisitions/:id/sign hands to signRequisition
SignerOf(employeeId) == employeeId

\* POST /api/employee/requisitions/:id/sign, behind employeeOnly
EmployeeSign(id, device, ip, audited) ==
    LET route == "POST /api/employee/requisitions/:id/sign"
        employeeId == session.employeeUserId
    IN
    /\ session' = employeeOnly.session
    /\ IF employeeOnly.called
       THEN /\ SignLogged(employeeId, id, device, ip, SignerOf(employeeId), audited)
            /\ res' = Response(route,
                               IF last'.threw
                               THEN EmployeeSignStatus(TRUE, last'.status)
                               ELSE AfterAudit(200, audited),
                               id, TRUE, employeeOnly.user)
       ELSE /\ res' = Response(route, employeeOnly.status, id, FALSE, <<>>)
            /\ UNCHANGED <<impl, materials, materialIds, stockMovements, requisitions,
                           last, calls, users, auditLogs, clock>>

\* insertStockMovementSchema.parse({...req.body, userId}): the body's userId
\* gives way to the session user's, requisitionId and quantity stay as sent
insertStockMovementSchema(body, sub) == [body EXCEPT !.userId = sub]

\* POST /api/stock-movements, of the session user sub
PostStockMovement(sub, body, audited) ==
    LET id == Len(stockMovements) + 1 IN
    /\ createStockMovement(insertStockMovementSchema(body, sub))
    /\ IF audited
       THEN createAuditLog([userId |-> sub, action |-> "CREATE",
                            entityType |-> "STOCK_MOVEMENT", entityId |-> id])
       ELSE auditLogs' = auditLogs
    /\ res' = Response("POST /api/stock-movements", AfterAudit(200, audited),
                       id, TRUE, <<>>)
    /\ UNCHANGED <<users, session, clock>>

-----------------------------------------------------------------------------
(* SpecAccess: registration, login and the employeeOnly guard *)

MaxRegistrations == 2

RegisterEmails == {"a@x.com", "A@x.com"}

\* upsertUser as Replit Auth and an administrator's tooling call it: of a user
\* of Users or of a registered employee
UserInputs ==
    [id : {"u1"} \cup DOMAIN users, email : {Null} \cup RegisterEmails,
     role : {Null, "ADMIN"}, passwordHash : {Null}]

NextAccess ==
    /\ UNCHANGED replay
    /\ \/ \E userData \in UserInputs : upsertUser(userData)
       \/ /\ Len(calls) < MaxRegistrations
          /\ \E email \in RegisterEmails : RegisterLookup(email)
       \/ \E c \in DOMAIN calls : RegisterCreate(c)
       \/ \E email \in RegisterEmails, valid \in BOOLEAN : Login(email, valid)
       \/ Logout
       \/ GetEmployeeRequisitions

SpecAccess == Init /\ [][NextAccess]_vars

-----------------------------------------------------------------------------
(* SpecRequisitions: the routes of requisitions and of the audit log, for
   users of the three roles *)

MaxListed == 2

\* u1 is an employee unless made something else; u2 is of the staff
StaffInputs ==
    [id : {"u1"}, email : {"a@x.com"}, role : {Null, "ESTOQUE"},
     passwordHash : {PasswordHash}]
        \cup [id : {"u2"}, email : {"b@x.com"}, role : {"ADMIN", "FUNCIONARIO"},
              passwordHash : {PasswordHash}]

\* the bodies POST /api/requisitions is sent
RequisitionBodies ==
    [employeeId : Users, materialId : {1}, quantity : {1}, status : {Null}]

NextRequisitions ==
    /\ UNCHANGED replay
    /\ \/ \E userData \in StaffInputs : upsertUser(userData)
       \/ \E email \in {"a@x.com", "b@x.com"} : Login(email, TRUE)
       \/ /\ Cardinality(DOMAIN requisitions) < MaxListed
          /\ \E sub \in Actors, body \in RequisitionBodies : PostRequisition(sub, body)
       \/ \E sub \in Users : GetRequisitions(sub)
       \/ GetEmployeeRequisitions
       \/ \E sub \in Users : GetAuditLogs(sub)
       \/ \E sub \in Actors, id \in 1..(MaxListed + 1), device \in {"ua1"}, ip \in Ips :
             SignRoute(sub, id, device, ip)
       \/ \E sub \in Actors, id \in 1..(MaxListed + 1), device \in {"ua1"}, ip \in Ips :
             SignRouteByStatus(sub, id, device, ip)

SpecRequisitions == Init /\ [][NextRequisitions]_vars

-----------------------------------------------------------------------------
(* SpecCatalog: materials created through POST /api/materials, their stock
   moved by createStockMovement, and the low-stock list *)

MaxCatalog == 2
MaxThreshold == 1
MaxCatalogMovements == 2

\* insertMaterialSchema with currentStock not omitted
insertMaterialSchema_KeepStock(payload) == payload

\* insertMaterialSchema.parse: zod strips the keys the schema omits
insertMaterialSchema(payload) ==
    [f \in DOMAIN payload \ {"id", "currentStock"} |-> payload[f]]

\* POST /api/materials, of the session user sub
PostMaterial(sub, payload) ==
    /\ createMaterial(insertMaterialSchema(payload))
    /\ createAuditLog([userId |-> sub, action |-> "CREATE", entityType |-> "MATERIAL",
                       entityId |-> materialIds + 1])
    /\ res' = Response("POST /api/materials", 200, materialIds + 1, TRUE, <<>>)
    /\ UNCHANGED <<users, session, clock>>

\* getMaterialsWithLowStock with < for <=
getMaterialsWithLowStock_Below ==
    {m \in DOMAIN materials : materials[m].currentStock < materials[m].minimumStock}

getMaterialsWithLowStock ==
    {m \in DOMAIN materials : materials[m].currentStock <= materials[m].minimumStock}

\* GET /api/dashboard/low-stock
GetLowStock ==
    /\ res' = Response("GET /api/dashboard/low-stock", 200, getMaterialsWithLowStock,
                       TRUE, <<>>)
    /\ UNCHANGED <<impl, materials, materialIds, stockMovements, requisitions, last,
                   calls, users, session, auditLogs, clock>>

\* the bodies POST /api/materials is sent, with and without a currentStock
MaterialPayloads ==
    [minimumStock : 0..MaxThreshold]
        \cup [minimumStock : 0..MaxThreshold, currentStock : {MaxThreshold + 1}]

NextCatalog ==
    /\ UNCHANGED replay
    /\ \/ /\ materialIds < MaxCatalog
          /\ \E sub \in Actors, payload \in MaterialPayloads : PostMaterial(sub, payload)
       \/ /\ Len(stockMovements) < MaxCatalogMovements
          /\ \E movement \in LedgerInputs :
                createStockMovement(movement) /\ UNCHANGED web
       \/ GetLowStock

SpecCatalog == Init /\ [][NextCatalog]_vars

-----------------------------------------------------------------------------
(* SpecAudit: entries added to an audit log that holds AuditLimit - 2 already,
   and the list an ADMIN is sent *)

MaxBeyond == 2
MaxClock == 2

\* the entries of an earlier millisecond
History ==
    [i \in 1..(AuditLimit - 2) |->
        [id |-> i, userId |-> "u2", action |-> "CREATE", entityType |-> "MATERIAL",
         entityId |-> i, createdAt |-> 0]]

InitAudit ==
    /\ impl \in Implementations
    /\ materials = <<>>
    /\ materialIds = 0
    /\ stockMovements = <<>>
    /\ requisitions = <<>>
    /\ last = Ok("init", NoId)
    /\ calls = <<>>
    /\ users = ("u2" :> [id |-> "u2", email |-> Null, role |-> "ADMIN",
                         passwordHash |-> Null, seq |-> 1])
    /\ session = [employeeUserId |-> Null]
    /\ auditLogs = History
    /\ clock = 0
    /\ res = NoResponse
    /\ replay = NoReplay

\* a millisecond passes
Tick ==
    /\ clock < MaxClock
    /\ clock' = clock + 1
    /\ UNCHANGED <<impl, materials, materialIds, stockMovements, requisitions, last,
                   calls, users, session, auditLogs, res>>

\* a call createAuditLog(log)
LogEntry(log) ==
    /\ createAuditLog(log)
    /\ last' = Ok("createAuditLog", NoId)
    /\ UNCHANGED <<impl, materials, materialIds, stockMovements, requisitions, calls,
                   users, session, clock, res>>

NextAudit ==
    /\ UNCHANGED replay
    /\ \/ Tick
       \/ /\ Len(auditLogs) < AuditLimit + MaxBeyond
          /\ LogEntry([userId |-> "u2", action |-> "DELETE", entityType |-> "MATERIAL",
                       entityId |-> 1])
       \/ GetAuditLogs("u2")

SpecAudit == InitAudit /\ [][NextAudit]_vars

-----------------------------------------------------------------------------
(* SpecStock: the routes that write materials, movements and requisitions,
   with a createAuditLog that may throw after a movement or a signature *)

\* PUT /api/materials/:id, of the session user sub
PutMaterial(sub, id, payload) ==
    /\ updateMaterial(id, insertMaterialSchema(payload))
    /\ IF last'.threw
       THEN auditLogs' = auditLogs
       ELSE createAuditLog([userId |-> sub, action |-> "UPDATE",
                            entityType |-> "MATERIAL", entityId |-> id])
    /\ res' = Response("PUT /api/materials/:id", IF last'.threw THEN 500 ELSE 200,
                       id, TRUE, <<>>)
    /\ UNCHANGED <<users, session, clock>>

\* DELETE /api/materials/:id, of the session user sub
DeleteMaterial(sub, id) ==
    /\ deleteMaterial(id)
    /\ createAuditLog([userId |-> sub, action |-> "DELETE", entityType |-> "MATERIAL",
                       entityId |-> id])
    /\ res' = Response("DELETE /api/materials/:id", 200, id, TRUE, <<>>)
    /\ UNCHANGED <<users, session, clock>>

MaxAuditEntries == 3

\* the bodies POST /api/stock-movements is sent
StockMovementBodies ==
    [materialId : MaterialRefs, type : MovementTypes, quantity : Quantities,
     userId : {Null}, requisitionId : {NoId} \cup DOMAIN requisitions]

\* the bodies PUT /api/materials/:id is sent, with and without a currentStock
MaterialUpdates ==
    [minimumStock : {MaxMinimumStock + 1}]
        \cup [minimumStock : {MaxMinimumStock + 1}, currentStock : {MaxQuantity + 1}]

CanLog == Len(auditLogs) < MaxAuditEntries

NextStock ==
    /\ UNCHANGED replay
    /\ \/ /\ materialIds < MaxMaterials /\ CanLog
          /\ \E sub \in Actors, payload \in MaterialInputs : PostMaterial(sub, payload)
       \/ /\ CanLog
          /\ \E sub \in Actors, id \in MaterialRefs, payload \in MaterialUpdates :
                PutMaterial(sub, id, payload)
       \/ /\ CanLog
          /\ \E sub \in Actors, id \in MaterialRefs : DeleteMaterial(sub, id)
       \/ /\ CanMove /\ CanLog
          /\ \E sub \in Actors, body \in StockMovementBodies, audited \in BOOLEAN :
                PostStockMovement(sub, body, audited)
       \/ /\ Cardinality(DOMAIN requisitions) < MaxRequisitions /\ CanLog
          /\ \E sub \in Actors, body \in RequisitionBodies : PostRequisition(sub, body)
       \/ /\ CanMove /\ CanLog
          /\ \E sub \in Actors, id \in DOMAIN requisitions, device \in {"ua1"}, ip \in Ips,
                audited \in BOOLEAN :
                SignRouteAudited(sub, id, device, ip, audited)

SpecStock == Init /\ [][NextStock]_vars

-----------------------------------------------------------------------------
(* The ledger read back *)

MovementsOf(id) ==
    {i \in 1..Len(stockMovements) : stockMovements[i].requisitionId = id}

Delta(movement) ==
    IF movement.type = "SAIDA" THEN 0 - movement.quantity ELSE movement.quantity

\* the sum of the signed quantities of the first n movements, those of material m
RECURSIVE SumOfDeltas(_, _)
SumOfDeltas(m, n) ==
    IF n = 0 THEN 0
    ELSE SumOfDeltas(m, n - 1)
         + (IF stockMovements[n].materialId = m THEN Delta(stockMovements[n]) ELSE 0)

\* the same sum, floored at 0 after each movement
RECURSIVE RunningStock(_, _)
RunningStock(m, n) ==
    IF n = 0 THEN 0
    ELSE IF stockMovements[n].materialId = m
         THEN Max(0, RunningStock(m, n - 1) + Delta(stockMovements[n]))
         ELSE RunningStock(m, n - 1)

\* the step taken is a call signRequisition(id, ...)
Signing(id) == last'.op = "signRequisition" /\ last'.id = id

StoreUnchanged ==
    /\ requisitions' = requisitions
    /\ stockMovements' = stockMovements
    /\ materials' = materials

-----------------------------------------------------------------------------
(* C1: a requisition is ASSINADA if and only if exactly one movement has its
   id as requisitionId, and that movement is a SAIDA of the requisition's
   material and quantity. *)
C1_SignedIffOneOutbound ==
    \A id \in DOMAIN requisitions :
        requisitions[id].status = "ASSINADA"
        <=> /\ Cardinality(MovementsOf(id)) = 1
            /\ \A i \in MovementsOf(id) :
                   /\ stockMovements[i].type = "SAIDA"
                   /\ stockMovements[i].materialId = requisitions[id].materialId
                   /\ stockMovements[i].quantity = requisitions[id].quantity

(* C2, as claimed: signRequisition on an ASSINADA requisition throws the error
   of status 400 whatever the signerId, and changes nothing in the store. *)
C2_AlwaysAlreadySigned ==
    [][\A id \in DOMAIN requisitions :
          Signing(id) /\ requisitions[id].status = "ASSINADA"
          => last'.threw /\ last'.status = 400 /\ StoreUnchanged]_vars

(* C2, amended: signRequisition on an ASSINADA requisition throws, and changes
   nothing in the store; the error has status 400 when the signerId is absent
   or the requisition's employeeId, and status 403 when it is another user's. *)
C2_SignedRejected ==
    [][\A id \in DOMAIN requisitions :
          Signing(id) /\ requisitions[id].status = "ASSINADA"
          => /\ last'.threw
             /\ last'.status =
                    IF last'.signerId \in {NoSigner, requisitions[id].employeeId}
                    THEN 400 ELSE 403
             /\ StoreUnchanged]_vars

\* a signRequisition by its employee on an ASSINADA requisition was rejected
C2_Witness ==
    /\ last.op = "signRequisition" /\ last.was = "ASSINADA"
    /\ last.signerId = requisitions[last.id].employeeId
    /\ last.threw /\ last.status = 400
    /\ requisitions[last.id].status = "ASSINADA"
    /\ Cardinality(MovementsOf(last.id)) = 1

\* a caller signRequisition lets through the check of the signer
Authorized(c) ==
    calls[c].signerId \in {NoSigner, requisitions[calls[c].id].employeeId}

\* the stock of material m before any requisition was signed
StockBeforeSigning(m) ==
    IF stockMovements # <<>> /\ stockMovements[1].requisitionId = NoId
    THEN stockMovements[1].quantity ELSE 0

(* C3: of two concurrent signRequisition calls on one PENDENTE requisition,
   both by a signer allowed to sign, exactly one succeeds and the other throws
   the error of status 400; one SAIDA movement then references the requisition
   and the material's stock is lowered once. *)
C3_OneSignerWins ==
    (\A c \in Callers : calls[c].pc = "done" /\ Authorized(c))
    => /\ \E c \in Callers :
              /\ ~calls[c].threw
              /\ \A d \in Callers \ {c} : calls[d].threw /\ calls[d].status = 400
       /\ Cardinality(MovementsOf(1)) = 1
       /\ \A i \in MovementsOf(1) : stockMovements[i].type = "SAIDA"
       /\ materials[1].currentStock =
              Max(0, StockBeforeSigning(1) - requisitions[1].quantity)

(* C4: signRequisition with a non-empty signerId that is not the requisition's
   employeeId throws the error of status 403, whatever the requisition's
   status, and changes nothing in the store. *)
C4_ForbiddenSigner ==
    [][\A id \in DOMAIN requisitions :
          /\ Signing(id)
          /\ last'.signerId # NoSigner
          /\ last'.signerId # requisitions[id].employeeId
          => last'.threw /\ last'.status = 403 /\ StoreUnchanged]_vars

\* another user's signRequisition on a PENDENTE requisition was rejected
C4_Witness ==
    /\ last.op = "signRequisition" /\ last.was = "PENDENTE"
    /\ last.signerId \in Users \ {requisitions[last.id].employeeId}
    /\ last.threw /\ last.status = 403
    /\ requisitions[last.id].status = "PENDENTE"
    /\ MovementsOf(last.id) = {}

\* what a successful signRequisition(id, ...) on a PENDENTE requisition does
\* to the requisition and to the movements
SignedAndRecorded(id) ==
    /\ requisitions' =
           [requisitions EXCEPT ![id].status = "ASSINADA", ![id].signedAt = Now,
                                ![id].signedByDevice = requisitions'[id].signedByDevice,
                                ![id].signedByIp = requisitions'[id].signedByIp]
    /\ last'.device # Null => requisitions'[id].signedByDevice = last'.device
    /\ last'.ip # Null => requisitions'[id].signedByIp = last'.ip
    /\ stockMovements' =
           Append(stockMovements,
                  [materialId |-> requisitions[id].materialId, type |-> "SAIDA",
                   quantity |-> requisitions[id].quantity,
                   userId |-> requisitions[id].employeeId, requisitionId |-> id])

SignedPending(id) ==
    Signing(id) /\ ~last'.threw /\ requisitions[id].status = "PENDENTE"

(* C5, as claimed: a successful signRequisition on a PENDENTE requisition
   makes it ASSINADA with signedAt, signedByDevice and signedByIp stamped,
   appends one SAIDA movement of its material and quantity in the name of its
   employee and linked to it, and lowers the material's currentStock by
   exactly the quantity. *)
C5_LowersByQuantity ==
    [][\A id \in DOMAIN requisitions :
          SignedPending(id)
          => /\ SignedAndRecorded(id)
             /\ LET m == requisitions[id].materialId IN
                m \in DOMAIN materials
                => materials' = [materials EXCEPT ![m].currentStock =
                                     @ - requisitions[id].quantity]]_vars

(* C5, amended: ... and sets the material's currentStock to
   max(0, currentStock - quantity), leaving the other materials as they are
   (and all of them when the material is no longer stored). *)
C5_SignEffect ==
    [][\A id \in DOMAIN requisitions :
          SignedPending(id)
          => /\ SignedAndRecorded(id)
             /\ LET m == requisitions[id].materialId IN
                materials' =
                    IF m \in DOMAIN materials
                    THEN [materials EXCEPT ![m].currentStock =
                              Max(0, @ - requisitions[id].quantity)]
                    ELSE materials]_vars

\* a PENDENTE requisition of quantity 1 was signed and took the material's
\* stock, put there by an ENTRADA of 1, to 0
C5_Witness ==
    /\ last.op = "signRequisition" /\ last.was = "PENDENTE" /\ ~last.threw
    /\ requisitions[last.id].status = "ASSINADA"
    /\ requisitions[last.id].quantity = 1
    /\ requisitions[last.id].signedByDevice # Null
    /\ Len(stockMovements) = 2
    /\ stockMovements[1].type = "ENTRADA" /\ stockMovements[1].quantity = 1
    /\ stockMovements[1].materialId = requisitions[last.id].materialId
    /\ stockMovements[2].requisitionId = last.id
    /\ requisitions[last.id].materialId \in DOMAIN materials
    /\ materials[requisitions[last.id].materialId].currentStock = 0

(* C6, as claimed: a material's currentStock is max(0, S), S the sum over its
   movements of +quantity for ENTRADA and AJUSTE and -quantity for SAIDA. *)
C6_MaxOfSum ==
    \A m \in DOMAIN materials :
        materials[m].currentStock = Max(0, SumOfDeltas(m, Len(stockMovements)))

(* C6, amended: a material's currentStock is the value obtained from 0 by
   adding each movement's signed quantity in turn and flooring the result at 0
   after each movement. *)
C6_RunningStock ==
    \A m \in DOMAIN materials :
        materials[m].currentStock = RunningStock(m, Len(stockMovements))

\* a material with stock left after MaxLedger movements that the floor cut short
C6_Witness ==
    \E m \in DOMAIN materials :
        /\ Len(stockMovements) = MaxLedger
        /\ \A i \in 1..Len(stockMovements) : stockMovements[i].materialId = m
        /\ materials[m].currentStock > 0
        /\ SumOfDeltas(m, Len(stockMovements)) < materials[m].currentStock

(* C7: every material's currentStock is >= 0. *)
C7_StockNonNegative ==
    \A m \in DOMAIN materials : materials[m].currentStock >= 0

\* a stored material whose movements sum to less than 0, one of them the
\* SAIDA of a signed requisition
C7_Witness ==
    \E m \in DOMAIN materials :
        /\ SumOfDeltas(m, Len(stockMovements)) < 0
        /\ materials[m].currentStock = 0
        /\ \E i \in 1..Len(stockMovements) :
               /\ stockMovements[i].materialId = m
               /\ stockMovements[i].requisitionId # NoId
               /\ stockMovements[i].quantity > 0

(* C8: a requisition that is not PENDENTE never becomes PENDENTE again, and
   one that is ASSINADA stays ASSINADA. *)
C8_StatusOneWay ==
    [][\A id \in DOMAIN requisitions :
          /\ requisitions[id].status # "PENDENTE"
             => requisitions'[id].status # "PENDENTE"
          /\ requisitions[id].status = "ASSINADA"
             => requisitions'[id].status = "ASSINADA"]_vars

(* C9: signRequisition on a CANCELADA requisition does not make it ASSINADA,
   and changes neither the movements nor the materials. *)
C9_CancelledNeverSigned ==
    [][\A id \in DOMAIN requisitions :
          Signing(id) /\ requisitions[id].status = "CANCELADA"
          => /\ requisitions'[id].status # "ASSINADA"
             /\ stockMovements' = stockMovements
             /\ materials' = materials]_vars

(* C10: the requisition createRequisition stores is PENDENTE, with signedAt,
   signedByDevice and signedByIp null. *)
C10_CreatedPending ==
    last.op = "createRequisition"
    => /\ requisitions[last.id].status = "PENDENTE"
       /\ requisitions[last.id].signedAt = Null
       /\ requisitions[last.id].signedByDevice = Null
       /\ requisitions[last.id].signedByIp = Null

\* the step taken is a request GET /api/employee/requisitions, which goes
\* through employeeOnly (every other step that leaves this route in res changes
\* users, calls or last)
GuardedRequest ==
    /\ res'.route = "GET /api/employee/requisitions"
    /\ UNCHANGED <<users, calls, last>>

(* C11: employeeOnly responds 401 and does not call the handler when the
   session holds no employeeUserId; responds 403, removes employeeUserId from
   the session and does not call the handler when the id is no stored user's
   or a user's whose role is not FUNCIONARIO; otherwise calls the handler with
   the stored user and leaves the session and the store as they are. *)
C11_EmployeeOnly ==
    [][GuardedRequest
       => LET employeeId == session.employeeUserId IN
          /\ IF employeeId = Null
             THEN res'.status = 401 /\ ~res'.called /\ session' = session
             ELSE IF employeeId \notin DOMAIN users
                     \/ users[employeeId].role # "FUNCIONARIO"
             THEN /\ res'.status = 403 /\ ~res'.called
                  /\ session'.employeeUserId = Null
             ELSE /\ res'.called /\ res'.user = <<users[employeeId]>>
                  /\ session' = session
          /\ UNCHANGED <<users, requisitions, materials, stockMovements, auditLogs>>]_vars

\* a registered employee logged in, was made ADMIN, and the guard then
\* answered 403 and emptied the session
C11_Witness ==
    /\ res.route = "GET /api/employee/requisitions"
    /\ res.status = 403 /\ ~res.called
    /\ session.employeeUserId = Null
    /\ \E id \in DOMAIN users :
           users[id].role = "ADMIN" /\ users[id].passwordHash # Null

(* C12: no two stored users have emails that are equal ignoring case. *)
C12_UniqueEmails ==
    \A a, b \in DOMAIN users :
        a # b /\ users[a].email # Null /\ users[b].email # Null
        => ToLowerCase(users[a].email) # ToLowerCase(users[b].email)

\* the step taken is a request of the route (every other step that leaves the
\* route in res changes users, calls or last)
Requested(route) ==
    /\ res'.route = route
    /\ UNCHANGED <<users, calls, last>>

\* seq holds the entries of auditLogs, each once
AllEntries(seq) ==
    /\ Len(seq) = Len(auditLogs)
    /\ \E order \in Permutations(DOMAIN auditLogs) :
           \A i \in DOMAIN auditLogs : seq[i] = auditLogs[order[i]]

(* C13: GET /api/audit-logs responds with the audit entries when the session
   user is a stored user of role ADMIN; in every other case (no stored user,
   role ESTOQUE, role FUNCIONARIO) it responds 403 with no entry. *)
C13_AuditLogsAdminOnly ==
    [][Requested("GET /api/audit-logs")
       => /\ \E sub \in Users : res'.user = getUser(sub)
          /\ IF res'.user # <<>> /\ res'.user[1].role = "ADMIN"
             THEN res'.status = 200 /\ AllEntries(res'.body)
             ELSE res'.status = 403 /\ res'.body = <<>>]_vars

\* an ADMIN was sent two entries, and users of the other roles are stored
C13_Witness ==
    /\ res.route = "GET /api/audit-logs" /\ res.status = 200
    /\ res.user[1].role = "ADMIN"
    /\ Len(res.body) = 2 /\ res.body = auditLogs
    /\ \E id \in DOMAIN users : users[id].role = "ESTOQUE"

\* the stored requisitions made for the user
OwnRequisitions(userId) ==
    {id \in DOMAIN requisitions : requisitions[id].employeeId = userId}

(* C14: GET /api/requisitions of a session user of role FUNCIONARIO, and
   GET /api/employee/requisitions of an employee session, respond with exactly
   the stored requisitions whose employeeId is that user's id. *)
C14_OwnRequisitionsOnly ==
    [][/\ Requested("GET /api/requisitions")
          /\ res'.user # <<>> /\ res'.user[1].role = "FUNCIONARIO"
          => res'.body = OwnRequisitions(res'.user[1].id)
       /\ GuardedRequest /\ res'.called
          => res'.body = OwnRequisitions(session.employeeUserId)]_vars

\* an employee was sent their one requisition while another employee's is stored
C14_Witness ==
    /\ res.route = "GET /api/requisitions"
    /\ res.user # <<>> /\ res.user[1].role = "FUNCIONARIO"
    /\ Cardinality(res.body) = 1
    /\ \E id \in DOMAIN requisitions :
           /\ id \notin res.body
           /\ requisitions[id].employeeId \in DOMAIN users
           /\ users[requisitions[id].employeeId].role = "FUNCIONARIO"

\* the step taken is a request POST /api/requisitions/:id/sign
SignRequested ==
    /\ res'.route = "POST /api/requisitions/:id/sign"
    /\ last'.op = "signRequisition"

(* C15: POST /api/requisitions/:id/sign responds 404 when no requisition has
   the id, 400 when the requisition is ASSINADA, 403 when signRequisition
   refuses the signer, and 500 for no error of these kinds. *)
C15_SignStatusByKind ==
    [][SignRequested
       => /\ last'.id \notin DOMAIN requisitions => res'.status = 404
          /\ last'.id \in DOMAIN requisitions
             /\ requisitions[last'.id].status = "ASSINADA" => res'.status = 400
          /\ last'.threw /\ last'.status = 403 => res'.status = 403
          /\ last'.status \in {400, 403, 404} => res'.status # 500]_vars

(* C20: every stored requisition's employeeId is the id of a stored user whose
   role is FUNCIONARIO. *)
C20_EmployeeReferenced ==
    \A id \in DOMAIN requisitions :
        /\ requisitions[id].employeeId \in DOMAIN users
        /\ users[requisitions[id].employeeId].role = "FUNCIONARIO"

(* C16: updateMaterial with an id no stored material has throws, and changes
   no stored material. *)
C16_UpdateMissingThrows ==
    [][last'.op = "updateMaterial" /\ last'.id \notin DOMAIN materials
       => last'.threw /\ materials' = materials]_vars

(* C17: the material POST /api/materials stores has currentStock 0, whatever
   currentStock the body carries, and an id no stored material had. *)
C17_CreatedWithZeroStock ==
    [][materialIds' = materialIds + 1
       => /\ last'.op = "createMaterial"
          /\ last'.id \notin DOMAIN materials
          /\ DOMAIN materials' = DOMAIN materials \cup {last'.id}
          /\ materials'[last'.id].currentStock = 0
          /\ \A m \in DOMAIN materials : materials'[m] = materials[m]]_vars

\* DatabaseStorage stored a second material, with currentStock 0, while the
\* first has stock
C17_Witness ==
    /\ impl = "database"
    /\ last.op = "createMaterial" /\ last.id = 2
    /\ res.route = "POST /api/materials"
    /\ materials[2].currentStock = 0
    /\ materials[1].currentStock > 0

(* C18: the list of GET /api/dashboard/low-stock holds exactly the stored
   materials whose currentStock is <= minimumStock, those with both 0
   among them. *)
C18_LowStockExact ==
    [][Requested("GET /api/dashboard/low-stock")
       => /\ \A m \in DOMAIN materials :
                 m \in res'.body
                 <=> materials[m].currentStock <= materials[m].minimumStock
          /\ res'.body \subseteq DOMAIN materials]_vars

\* the list holds a material with currentStock 0 and minimumStock 0 and lacks a
\* stored material whose stock is above its minimum
C18_Witness ==
    /\ res.route = "GET /api/dashboard/low-stock"
    /\ \E m \in res.body :
           /\ m \in DOMAIN materials
           /\ materials[m].currentStock = 0 /\ materials[m].minimumStock = 0
    /\ \E m \in DOMAIN materials \ res.body :
           materials[m].currentStock > materials[m].minimumStock

\* the ids of the entries of a list
EntryIds(list) == {list[i].id : i \in DOMAIN list}

(* C19: the list of getAuditLogs holds at most 1000 entries, each a stored
   entry and none twice, no entry before one created later; an entry left out
   is no later than any entry listed, and none is left out while the list
   holds less than 1000. *)
C19_NewestThousand ==
    [][/\ Requested("GET /api/audit-logs") /\ res'.status = 200
       /\ UNCHANGED <<auditLogs, clock>>
       => LET list == res'.body IN
          /\ Len(list) <= 1000
          /\ Len(list) = IF Len(auditLogs) < 1000 THEN Len(auditLogs) ELSE 1000
          /\ \A i \in DOMAIN list : list[i] = auditLogs[list[i].id]
          /\ Cardinality(EntryIds(list)) = Len(list)
          /\ \A i \in 1..(Len(list) - 1) : list[i].createdAt >= list[i + 1].createdAt
          /\ \A o \in DOMAIN auditLogs \ EntryIds(list) :
                 auditLogs[o].createdAt <= list[Len(list)].createdAt]_vars

\* 1000 entries listed of more than 1000 stored, the first later than the last
C19_Witness ==
    /\ res.route = "GET /api/audit-logs" /\ res.status = 200
    /\ Len(auditLogs) > 1000
    /\ Len(res.body) = 1000
    /\ res.body[1].createdAt > res.body[1000].createdAt
    /\ res.body[1] = auditLogs[Len(auditLogs)]

\* the movements the step adds
NewMovements == DOMAIN stockMovements' \ DOMAIN stockMovements

(* C21: a stored movement has a requisitionId only when signRequisition
   created it; POST /api/stock-movements stores none with a requisitionId. *)
C21_LinkedOnlyBySigning ==
    [][\A i \in NewMovements :
          stockMovements'[i].requisitionId # NoId
          => last'.op = "signRequisition"]_vars

(* C22: every stored movement has a quantity > 0. *)
C22_PositiveQuantities ==
    \A i \in DOMAIN stockMovements : stockMovements[i].quantity > 0

\* every entry of seq is in next, at its place and as it was
Extends(next, seq) ==
    /\ Len(next) >= Len(seq)
    /\ \A i \in DOMAIN seq : next[i] = seq[i]

(* C23: stored movements and audit entries are never removed and never
   changed: each step leaves every one of them as it was. *)
C23_AppendOnly ==
    [][Extends(stockMovements', stockMovements) /\ Extends(auditLogs', auditLogs)]_vars

\* two movements and three audit entries are stored, the material they were
\* made for deleted since
C23_Witness ==
    /\ Len(stockMovements) = 2 /\ Len(auditLogs) = 3
    /\ materialIds = 1 /\ materials = <<>>
    /\ auditLogs[3].action = "DELETE"
    /\ \A i \in DOMAIN stockMovements : stockMovements[i].materialId = 1

(* C25: one createStockMovement(m) for a stored material with currentStock s
   stores the movement and sets the material's currentStock to
   max(0, s + m.quantity) for ENTRADA and AJUSTE and to max(0, s - m.quantity)
   for SAIDA; it does not throw, and no other material changes. *)
C25_SingleMovement ==
    [][/\ last'.op = "createStockMovement"
       /\ Len(stockMovements') = Len(stockMovements) + 1
       => LET m == stockMovements'[Len(stockMovements')] IN
          /\ ~last'.threw
          /\ Extends(stockMovements', stockMovements)
          /\ DOMAIN materials' = DOMAIN materials
          /\ \A id \in DOMAIN materials :
                 materials'[id].currentStock =
                     IF id # m.materialId THEN materials[id].currentStock
                     ELSE IF m.type = "SAIDA"
                          THEN Max(0, materials[id].currentStock - m.quantity)
                          ELSE Max(0, materials[id].currentStock + m.quantity)]_vars

\* a SAIDA on a material without stock left it at 0, and the stock of the other
\* material where it was
C25_Witness ==
    /\ last.op = "createStockMovement" /\ ~last.threw
    /\ Len(stockMovements) = 2
    /\ stockMovements[1].type = "ENTRADA" /\ stockMovements[1].materialId = 1
    /\ stockMovements[2].type = "SAIDA" /\ stockMovements[2].materialId = 2
    /\ DOMAIN materials = {1, 2}
    /\ materials[1].currentStock = stockMovements[1].quantity
    /\ materials[2].currentStock = 0

\* the step is a route's whose mutation was done and whose audit entry was not
\* written
Unaudited(route) ==
    /\ res'.route = route
    /\ Len(stockMovements') = Len(stockMovements) + 1
    /\ auditLogs' = auditLogs

(* C28: when createAuditLog throws after the mutation of POST
   /api/stock-movements or of POST /api/requisitions/:id/sign, the route
   responds 500 and the mutation stays: the movement is stored, the stock
   moved, the requisition ASSINADA. *)
C28_AuditFailureKeepsMutation ==
    [][/\ Unaudited("POST /api/stock-movements")
          => /\ res'.status = 500
             /\ LET m == stockMovements'[Len(stockMovements')] IN
                m.materialId \in DOMAIN materials
                => materials'[m.materialId].currentStock =
                       Max(0, materials[m.materialId].currentStock
                              + (IF m.type = "SAIDA" THEN 0 - m.quantity
                                 ELSE m.quantity))
       /\ Unaudited("POST /api/requisitions/:id/sign")
          => /\ res'.status = 500
             /\ requisitions'[last'.id].status = "ASSINADA"
             /\ stockMovements'[Len(stockMovements')].requisitionId = last'.id]_vars

\* a signature answered 500 is stored, with its movement, and has no audit entry
C28_Witness ==
    /\ res.route = "POST /api/requisitions/:id/sign" /\ res.status = 500
    /\ last.op = "signRequisition" /\ ~last.threw
    /\ requisitions[last.id].status = "ASSINADA"
    /\ MovementsOf(last.id) # {}
    /\ \A i \in DOMAIN auditLogs : auditLogs[i].action # "SIGN"

(* C29: a stored material's currentStock changes only in a step that stores a
   movement of that material; PUT /api/materials/:id, whatever its body,
   leaves it as it was. *)
C29_StockOnlyByMovement ==
    [][\A m \in DOMAIN materials \cap DOMAIN materials' :
          materials'[m].currentStock # materials[m].currentStock
          => /\ Len(stockMovements') = Len(stockMovements) + 1
             /\ stockMovements'[Len(stockMovements')].materialId = m]_vars

\* PUT /api/materials/:id raised the minimum of a material and left the stock
\* an ENTRADA gave it
C29_Witness ==
    /\ res.route = "PUT /api/materials/:id" /\ res.status = 200
    /\ last.op = "updateMaterial" /\ last.id \in DOMAIN materials
    /\ materials[last.id].minimumStock = MaxMinimumStock + 1
    /\ Len(stockMovements) = 1 /\ stockMovements[1].type = "ENTRADA"
    /\ materials[last.id].currentStock = stockMovements[1].quantity
    /\ stockMovements[1].quantity > 0

(***************************************************************************)
(* The two sign routes side by side: users of role FUNCIONARIO, the role a *)
(* user is stored with by default, sign through the employee session and   *)
(* through the general one.                                                 *)
(***************************************************************************)
SignerInputs ==
    [id : {"u1"}, email : {"a@x.com"}, role : {"FUNCIONARIO"},
     passwordHash : {PasswordHash}]
        \cup [id : {"u2"}, email : {"b@x.com"}, role : {"FUNCIONARIO", "ADMIN"},
              passwordHash : {PasswordHash}]

NextSigning ==
    /\ UNCHANGED replay
    /\ \/ \E userData \in SignerInputs : upsertUser(userData)
       \/ \E email \in {"a@x.com", "b@x.com"} : Login(email, TRUE)
       \/ /\ Cardinality(DOMAIN requisitions) < MaxListed
          /\ \E sub \in Actors, body \in RequisitionBodies : PostRequisition(sub, body)
       \/ \E id \in 1..MaxListed, ip \in Ips : EmployeeSign(id, "ua1", ip, TRUE)
       \/ \E sub \in Users, id \in 1..MaxListed, ip \in Ips :
             SignRouteAudited(sub, id, "ua1", ip, TRUE)

SpecSigning == Init /\ [][NextSigning]_vars

\* the step signs requisition id and logs it in the name of the user `by`
SignedBy(id, by) ==
    /\ requisitions[id].status # "ASSINADA"
    /\ requisitions'[id].status = "ASSINADA"
    /\ Len(auditLogs') = Len(auditLogs) + 1
    /\ auditLogs'[Len(auditLogs')].action = "SIGN"
    /\ auditLogs'[Len(auditLogs')].userId = by

(* C30: a request of a user of role FUNCIONARIO, to either sign route, signs
   only a requisition whose employeeId is that user's id. *)
C30_EmployeeSignsOwnOnly ==
    [][\A id \in DOMAIN requisitions : \A by \in DOMAIN users :
          SignedBy(id, by) /\ users[by].role = "FUNCIONARIO"
          => requisitions[id].employeeId = by]_vars

\* the same, for the requests to POST /api/employee/requisitions/:id/sign alone
EmployeeRouteSignsOwnOnly ==
    [][\A id \in DOMAIN requisitions : \A by \in DOMAIN users :
          /\ SignedBy(id, by)
          /\ res'.route = "POST /api/employee/requisitions/:id/sign"
          => requisitions[id].employeeId = by]_vars

(***************************************************************************)
(* Two createStockMovement calls in flight on one material.  Each await of *)
(* the method is a point where the other call may run: DatabaseStorage     *)
(* awaits the insert, the getMaterial and the updateMaterialStock;         *)
(* InMemoryStorage runs up to its first await, the one on getMaterial,     *)
(* whose body has read the material by then, in one piece.                 *)
(***************************************************************************)
MaxRaceQuantity == 2

RaceInputs ==
    [materialId : {1}, type : MovementTypes, quantity : 1..MaxRaceQuantity,
     userId : {"u2"}, requisitionId : {NoId}]

MovementCall(movement) == [pc |-> "insert", movement |-> movement, stock |-> 0]

InitRace ==
    /\ impl \in Implementations
    /\ materialIds = 1
    /\ \E stock \in 0..MaxInitialStock :
          /\ materials = (1 :> [minimumStock |-> 0, currentStock |-> stock])
          /\ stockMovements =
                 IF stock = 0 THEN <<>>
                 ELSE <<[materialId |-> 1, type |-> "ENTRADA", quantity |-> stock,
                         userId |-> "u2", requisitionId |-> NoId]>>
    /\ requisitions = <<>>
    /\ calls \in [Callers -> {MovementCall(movement) : movement \in RaceInputs}]
    /\ last = Ok("init", NoId)
    /\ users = <<>>
    /\ session = [employeeUserId |-> Null]
    /\ auditLogs = <<>>
    /\ clock = 0
    /\ res = NoResponse
    /\ replay = NoReplay

\* DatabaseStorage: the awaited insert
CreateInsert(c) ==
    /\ impl = "database"
    /\ calls[c].pc = "insert"
    /\ stockMovements' = Append(stockMovements, NewMovement(calls[c].movement))
    /\ calls' = [calls EXCEPT ![c].pc = "read"]
    /\ UNCHANGED <<impl, materials, materialIds, requisitions, last>>

\* the call after its getMaterial
MaterialRead(call, mats) ==
    IF call.movement.materialId \in DOMAIN mats
    THEN [call EXCEPT !.pc = "write",
                      !.stock = mats[call.movement.materialId].currentStock]
    ELSE [call EXCEPT !.pc = "done"]

\* DatabaseStorage: the awaited getMaterial
CreateRead(c) ==
    /\ calls[c].pc = "read"
    /\ calls' = [calls EXCEPT ![c] = MaterialRead(@, materials)]
    /\ UNCHANGED <<impl, materials, materialIds, stockMovements, requisitions, last>>

\* InMemoryStorage: the record stored and the material read, up to the first await
CreateInMemory(c) ==
    /\ impl = "memory"
    /\ calls[c].pc = "insert"
    /\ stockMovements' = Append(stockMovements, NewMovement(calls[c].movement))
    /\ calls' = [calls EXCEPT ![c] = MaterialRead(@, materials)]
    /\ UNCHANGED <<impl, materials, materialIds, requisitions, last>>

\* updateMaterialStock with the stock computed from the material read before
CreateWrite(c) ==
    LET movement == calls[c].movement IN
    /\ calls[c].pc = "write"
    /\ materials' =
           IF movement.materialId \in DOMAIN materials
           THEN [materials EXCEPT ![movement.materialId].currentStock =
                    NewStock(calls[c].stock, movement.type, movement.quantity)]
           ELSE materials
    /\ calls' = [calls EXCEPT ![c].pc = "done"]
    /\ UNCHANGED <<impl, materialIds, stockMovements, requisitions, last>>

NextRace ==
    /\ UNCHANGED <<web, replay>>
    /\ \E c \in Callers :
           \/ CreateInsert(c)
           \/ CreateRead(c)
           \/ CreateInMemory(c)
           \/ CreateWrite(c)

SpecRace == InitRace /\ [][NextRace]_vars

\* the stock the material had before the two calls
StockBeforeRace ==
    IF Len(stockMovements) > Cardinality({c \in Callers : calls[c].pc # "insert"})
    THEN stockMovements[1].quantity ELSE 0

\* the stock after the movement of call a, then the movement of call b
OneAfterTheOther(a, b) ==
    NewStock(NewStock(StockBeforeRace, calls[a].movement.type, calls[a].movement.quantity),
             calls[b].movement.type, calls[b].movement.quantity)

(* C26: once two concurrent createStockMovement calls on one material have
   both returned, its currentStock is the one that applying the two movements
   one after the other, in one of the two orders, gives. *)
C26_NoLostUpdate ==
    (\A c \in Callers : calls[c].pc = "done")
    => materials[1].currentStock \in {OneAfterTheOther(1, 2), OneAfterTheOther(2, 1)}

(***************************************************************************)
(* One signRequisition call against a database whose statements may fail.  *)
(* A statement of createStockMovement that rejects ends the call with an   *)
(* error that carries no status; InMemoryStorage has no statement to fail. *)
(***************************************************************************)
InitFaulty ==
    /\ impl \in Implementations
    /\ materialIds = 1
    /\ \E stock \in 0..MaxInitialStock :
          /\ materials = (1 :> [minimumStock |-> 0, currentStock |-> stock])
          /\ stockMovements =
                 IF stock = 0 THEN <<>>
                 ELSE <<[materialId |-> 1, type |-> "ENTRADA", quantity |-> stock,
                         userId |-> "u2", requisitionId |-> NoId]>>
    /\ \E employeeId \in Employees, quantity \in 1..MaxQuantity :
          requisitions =
              (1 :> NewRequisition([employeeId |-> employeeId, materialId |-> 1,
                                    quantity |-> quantity, status |-> Null]))
    /\ calls \in [{1} -> {Call("lookup", device, ip, signerId) :
                      device \in Devices, ip \in Ips, signerId \in Users \cup {NoSigner}}]
    /\ last = Ok("init", NoId)
    /\ users = <<>>
    /\ session = [employeeUserId |-> Null]
    /\ auditLogs = <<>>
    /\ clock = 0
    /\ res = NoResponse
    /\ replay = NoReplay

\* the insert, the getMaterial or the updateMaterialStock of createStockMovement
\* rejects: the error leaves signRequisition, which has no catch
StatementFails(c) ==
    /\ impl = "database"
    /\ calls[c].pc \in {"insert", "read", "write"}
    /\ calls' = [calls EXCEPT ![c].pc = "done", ![c].threw = TRUE]
    /\ UNCHANGED <<impl, materials, materialIds, stockMovements, requisitions, last>>

NextFaulty ==
    /\ UNCHANGED <<web, replay>>
    /\ \E c \in DOMAIN calls :
           \/ SignLookup(c)
           \/ SignUpdate(c)
           \/ MovementInsert(c)
           \/ MovementRead(c)
           \/ SignInMemory(c)
           \/ MovementWrite(c)
           \/ StatementFails(c)

SpecFaulty == InitFaulty /\ [][NextFaulty]_vars

\* the call ended in the error of a failed statement, past the status update
MovementStepFailed(c) ==
    /\ calls[c].pc = "done"
    /\ calls[c].threw
    /\ calls[c].status = 0

(* C27: when the movement step of signRequisition fails after the status
   update was written, the requisition is not left ASSINADA. *)
C27_SignAllOrNothing ==
    \A c \in DOMAIN calls :
        MovementStepFailed(c) => requisitions[calls[c].id].status # "ASSINADA"

(***************************************************************************)
(* The two implementations on one sequence of calls: the calls are made on *)
(* a new InMemoryStorage and recorded, then made again, in the same order  *)
(* and with the same arguments, on a new DatabaseStorage.                  *)
(***************************************************************************)
MaxScript == 3

\* the calls of the storage contract, with the arguments the sequence draws from
StorageCalls ==
    [name : {"createMaterial"}, id : {NoId}, input : MaterialInputs]
        \cup [name : {"updateMaterial"}, id : MaterialRefs,
              input : [minimumStock : {MaxMinimumStock + 1}]]
        \cup [name : {"deleteMaterial"}, id : MaterialRefs, input : [id : MaterialRefs]]
        \cup [name : {"createStockMovement"}, id : {NoId},
              input : [materialId : MaterialRefs, type : MovementTypes,
                       quantity : {MaxQuantity}, userId : Actors,
                       requisitionId : {NoId}]]
        \cup [name : {"createRequisition"}, id : {NoId},
              input : [employeeId : Employees, materialId : MaterialRefs,
                       quantity : {MaxQuantity}, status : {Null}]]
        \cup [name : {"updateRequisition"}, id : RequisitionRefs,
              input : [status : {"CANCELADA"}]]
        \cup [name : {"signRequisition"}, id : RequisitionRefs,
              input : [device : Devices, ip : Ips, signerId : Employees \cup {NoSigner}]]

\* the call made on the storage instance
Do(call) ==
    \/ call.name = "createMaterial" /\ createMaterial(call.input)
    \/ call.name = "updateMaterial" /\ updateMaterial(call.id, call.input)
    \/ call.name = "deleteMaterial" /\ deleteMaterial(call.id)
    \/ call.name = "createStockMovement" /\ createStockMovement(call.input)
    \/ call.name = "createRequisition" /\ createRequisition(call.input)
    \/ call.name = "updateRequisition" /\ updateRequisition(call.id, call.input)
    \/ /\ call.name = "signRequisition"
       /\ signRequisition(call.id, call.input.device, call.input.ip,
                          call.input.signerId)

InitTwin ==
    /\ impl = "memory"
    /\ materials = <<>>
    /\ materialIds = 0
    /\ stockMovements = <<>>
    /\ requisitions = <<>>
    /\ last = Ok("init", NoId)
    /\ calls = <<>>
    /\ users = <<>>
    /\ session = [employeeUserId |-> Null]
    /\ auditLogs = <<>>
    /\ clock = 0
    /\ res = NoResponse
    /\ replay = Replay("memory", <<>>, <<>>, Store(<<>>, <<>>, <<>>), <<>>)

\* a call on the InMemoryStorage, recorded with its outcome
Recorded ==
    /\ replay.phase = "memory"
    /\ Len(replay.script) < MaxScript
    /\ \E call \in StorageCalls :
          /\ call.name = "createMaterial" => materialIds < MaxMaterials
          /\ call.name = "createRequisition"
             => Cardinality(DOMAIN requisitions) < MaxRequisitions
          /\ Do(call)
          /\ replay' = [replay EXCEPT !.script = Append(@, call),
                                      !.outcomes = Append(@, last')]
    /\ UNCHANGED web

\* the storage instance becomes a new DatabaseStorage, what the InMemoryStorage
\* held is kept aside
NewDatabaseStorage ==
    /\ replay.phase = "memory"
    /\ replay.script # <<>>
    /\ impl' = "database"
    /\ materials' = <<>>
    /\ materialIds' = 0
    /\ stockMovements' = <<>>
    /\ requisitions' = <<>>
    /\ last' = Ok("init", NoId)
    /\ replay' = [replay EXCEPT !.phase = "database",
                                !.store = Store(materials, stockMovements, requisitions)]
    /\ UNCHANGED <<calls, web>>

\* the next recorded call, on the DatabaseStorage
Replayed ==
    /\ replay.phase = "database"
    /\ Len(replay.replayed) < Len(replay.script)
    /\ Do(replay.script[Len(replay.replayed) + 1])
    /\ replay' = [replay EXCEPT !.replayed = Append(@, last')]
    /\ UNCHANGED web

NextTwin ==
    \/ Recorded
    \/ NewDatabaseStorage
    \/ Replayed

SpecTwin == InitTwin /\ [][NextTwin]_vars

(* C24: on one sequence of calls of the storage contract, DatabaseStorage
   returns or throws at every call as InMemoryStorage did, and ends with
   the same materials, movements and requisitions. *)
C24_SameOnBoth ==
    replay.phase = "database"
    => /\ \A i \in DOMAIN replay.replayed : replay.replayed[i] = replay.outcomes[i]
       /\ Len(replay.replayed) = Len(replay.script)
          => Store(materials, stockMovements, requisitions) = replay.store

====
